---- MODULE Spec2Model ----
(***************************************************************************)
(* yapg: charset specifications (src/src/charsets.rs), the password        *)
(* generator (src/src/lib.rs) and the argument flow of the binary          *)
(* (src/src/main.rs).  Characters are modelled by their Unicode code       *)
(* points, strings and Vec<char> by sequences of code points.              *)
(***************************************************************************)
EXTENDS Integers, Sequences, FiniteSets, TLC

\* ------------------------------------------------------------- bounds ---
\* Longest sequence of mutating operations applied to one CharsetSpec.
MaxOps == 2
\* Longest encoded specification string handed to from_str.
MaxParseLen == 3
\* Largest code point handed to CharsetName::try_from.
MaxCodePoint == 127
\* Longest hand-made alphabet given to a PasswordGenerator.
MaxAlphabet == 2
\* Longest password whose random picks are enumerated.
MaxLength == 2
\* Largest number of passwords asked of generate_n.
MaxCount == 2
\* A password length at which 64^n no longer fits an f64.
LongLength == 171

\* --------------------------------------------------- program constants ---
\* The length the From impls of PasswordGenerator use.
FROM_LENGTH == 20
\* main.rs
DEFAULT_LENGTH == 24
\* f64: significant bits, and the bit length from which a value is infinite.
F64_MANTISSA_DIGITS == 53
F64_MAX_EXP == 1024

\* ---------------------------------------------------- character groups ---
\* 'a' .. 'z'
CHARSET_ALPHA_LOWER ==
    << 97, 98, 99, 100, 101, 102, 103, 104, 105, 106, 107, 108, 109, 110, 111,
       112, 113, 114, 115, 116, 117, 118, 119, 120, 121, 122 >>

\* 'A' .. 'Z'
CHARSET_ALPHA_UPPER ==
    << 65, 66, 67, 68, 69, 70, 71, 72, 73, 74, 75, 76, 77, 78, 79,
       80, 81, 82, 83, 84, 85, 86, 87, 88, 89, 90 >>

\* '0' .. '9'
CHARSET_NUMERIC == << 48, 49, 50, 51, 52, 53, 54, 55, 56, 57 >>

\* '.', ':', ',', ';', '!', '?', ' ', '\'', '"'
CHARSET_PROSE == << 46, 58, 44, 59, 33, 63, 32, 39, 34 >>

\* '+', '-', '*', '/', '=', '<', '>'
CHARSET_MATHOPS == << 43, 45, 42, 47, 61, 60, 62 >>

\* '(', ')', '[', ']', '{', '}'
CHARSET_DELIM == << 40, 41, 91, 93, 123, 125 >>

\* '#', '@', '$', '%', '&', '|', '\\', '~', '^', '_', '`'
CHARSET_MISC_SPECIAL == << 35, 64, 36, 37, 38, 124, 92, 126, 94, 95, 96 >>

\* ------------------------------------------------------------ helpers ---
Range(s) == { s[i] : i \in DOMAIN s }

\* Option<T> as a sequence of length 0 or 1.
None == << >>
Some(x) == << x >>

\* io::Result<T>
Ok(v) == [ok |-> TRUE, val |-> v]
Err(e) == [ok |-> FALSE, err |-> e]

\* io::Error::new(io::ErrorKind::InvalidInput, format!("...: {}", c))
InvalidInput(c) == [kind |-> "InvalidInput", char |-> c]

\* --------------------------------------------------------- CharsetName ---
AtomicNames ==
    { "AlphaLower", "AlphaUpper", "Numeric", "Mathops", "Prose", "Delim",
      "MiscSpecial" }

CompoundNames == { "Alpha", "Special" }

CharsetName == AtomicNames \cup CompoundNames

\* A faulty variant of try_from: lower-case abbreviations accepted as well.
try_from_caseless(c) ==
    LET u == IF c >= 97 /\ c <= 122 THEN c - 32 ELSE c
    IN  CASE u = 85 -> Ok("AlphaUpper")
          [] u = 76 -> Ok("AlphaLower")
          [] u = 78 -> Ok("Numeric")
          [] u = 77 -> Ok("Mathops")
          [] u = 80 -> Ok("Prose")
          [] u = 68 -> Ok("Delim")
          [] u = 88 -> Ok("MiscSpecial")
          [] u = 65 -> Ok("Alpha")
          [] u = 83 -> Ok("Special")
          [] OTHER -> Err(InvalidInput(c))

\* impl TryFrom<char> for CharsetName.  'U' = 85, 'L' = 76, 'N' = 78,
\* 'M' = 77, 'P' = 80, 'D' = 68, 'X' = 88, 'A' = 65, 'S' = 83.
try_from(c) ==
    CASE c = 85 -> Ok("AlphaUpper")
      [] c = 76 -> Ok("AlphaLower")
      [] c = 78 -> Ok("Numeric")
      [] c = 77 -> Ok("Mathops")
      [] c = 80 -> Ok("Prose")
      [] c = 68 -> Ok("Delim")
      [] c = 88 -> Ok("MiscSpecial")
      [] c = 65 -> Ok("Alpha")
      [] c = 83 -> Ok("Special")
      [] OTHER -> Err(InvalidInput(c))

\* --------------------------------------------------------- CharsetSpec ---
\* CharsetSpec::empty
empty ==
    [ alpha_lower |-> FALSE, alpha_upper |-> FALSE, numeric |-> FALSE,
      mathops |-> FALSE, prose |-> FALSE, delim |-> FALSE,
      misc_special |-> FALSE, additions |-> << >> ]

\* CharsetSpec::std64; additions are '-' and '_'
std64 ==
    [ alpha_lower |-> TRUE, alpha_upper |-> TRUE, numeric |-> TRUE,
      mathops |-> FALSE, prose |-> FALSE, delim |-> FALSE,
      misc_special |-> FALSE, additions |-> << 45, 95 >> ]

\* CharsetSpec::printable_ascii
printable_ascii ==
    [ alpha_lower |-> TRUE, alpha_upper |-> TRUE, numeric |-> TRUE,
      mathops |-> TRUE, prose |-> TRUE, delim |-> TRUE,
      misc_special |-> TRUE, additions |-> << >> ]

\* impl AddAssign<char> for CharsetSpec
add_assign_char(self, c) ==
    [self EXCEPT !.additions = Append(@, c)]

\* impl AddAssign<&str> for CharsetSpec: += c for every char of more, in order
RECURSIVE add_assign_str(_, _)
add_assign_str(self, more) ==
    IF more = << >> THEN self
    ELSE add_assign_str(add_assign_char(self, Head(more)), Tail(more))

\* A faulty variant of add_assign_name: the compound Alpha sets only the lower case.
add_assign_name_half(self, name) ==
    CASE name = "AlphaLower" -> [self EXCEPT !.alpha_lower = TRUE]
      [] name = "AlphaUpper" -> [self EXCEPT !.alpha_upper = TRUE]
      [] name = "Numeric" -> [self EXCEPT !.numeric = TRUE]
      [] name = "Mathops" -> [self EXCEPT !.mathops = TRUE]
      [] name = "Prose" -> [self EXCEPT !.prose = TRUE]
      [] name = "Delim" -> [self EXCEPT !.delim = TRUE]
      [] name = "MiscSpecial" -> [self EXCEPT !.misc_special = TRUE]
      [] name = "Alpha" -> [self EXCEPT !.alpha_lower = TRUE]
      [] name = "Special" ->
            [self EXCEPT !.mathops = TRUE, !.prose = TRUE, !.delim = TRUE,
                         !.misc_special = TRUE]

\* impl AddAssign<CharsetName> for CharsetSpec
add_assign_name(self, name) ==
    CASE name = "AlphaLower" -> [self EXCEPT !.alpha_lower = TRUE]
      [] name = "AlphaUpper" -> [self EXCEPT !.alpha_upper = TRUE]
      [] name = "Numeric" -> [self EXCEPT !.numeric = TRUE]
      [] name = "Mathops" -> [self EXCEPT !.mathops = TRUE]
      [] name = "Prose" -> [self EXCEPT !.prose = TRUE]
      [] name = "Delim" -> [self EXCEPT !.delim = TRUE]
      [] name = "MiscSpecial" -> [self EXCEPT !.misc_special = TRUE]
      [] name = "Alpha" ->
            [self EXCEPT !.alpha_lower = TRUE, !.alpha_upper = TRUE]
      [] name = "Special" ->
            [self EXCEPT !.mathops = TRUE, !.prose = TRUE, !.delim = TRUE,
                         !.misc_special = TRUE]

\* A faulty variant of sub_assign_name: removing Special forgets the delimiters.
sub_assign_name_partial(self, name) ==
    CASE name = "AlphaLower" -> [self EXCEPT !.alpha_lower = FALSE]
      [] name = "AlphaUpper" -> [self EXCEPT !.alpha_upper = FALSE]
      [] name = "Numeric" -> [self EXCEPT !.numeric = FALSE]
      [] name = "Mathops" -> [self EXCEPT !.mathops = FALSE]
      [] name = "Prose" -> [self EXCEPT !.prose = FALSE]
      [] name = "Delim" -> [self EXCEPT !.delim = FALSE]
      [] name = "MiscSpecial" -> [self EXCEPT !.misc_special = FALSE]
      [] name = "Alpha" ->
            [self EXCEPT !.alpha_lower = FALSE, !.alpha_upper = FALSE]
      [] name = "Special" ->
            [self EXCEPT !.mathops = FALSE, !.prose = FALSE,
                         !.misc_special = FALSE]

\* impl SubAssign<CharsetName> for CharsetSpec
sub_assign_name(self, name) ==
    CASE name = "AlphaLower" -> [self EXCEPT !.alpha_lower = FALSE]
      [] name = "AlphaUpper" -> [self EXCEPT !.alpha_upper = FALSE]
      [] name = "Numeric" -> [self EXCEPT !.numeric = FALSE]
      [] name = "Mathops" -> [self EXCEPT !.mathops = FALSE]
      [] name = "Prose" -> [self EXCEPT !.prose = FALSE]
      [] name = "Delim" -> [self EXCEPT !.delim = FALSE]
      [] name = "MiscSpecial" -> [self EXCEPT !.misc_special = FALSE]
      [] name = "Alpha" ->
            [self EXCEPT !.alpha_lower = FALSE, !.alpha_upper = FALSE]
      [] name = "Special" ->
            [self EXCEPT !.mathops = FALSE, !.prose = FALSE, !.delim = FALSE,
                         !.misc_special = FALSE]

\* Merging two ascending runs, elements of a before equal elements of b.
\* The runs are split at the middle of a so that the evaluation nests only
\* logarithmically deep.
RECURSIVE merge(_, _)
merge(a, b) ==
    IF a = << >> THEN b
    ELSE IF b = << >> THEN a
    ELSE LET m == (Len(a) + 1) \div 2
             k == Cardinality({ j \in DOMAIN b : b[j] < a[m] })
         IN  merge(SubSeq(a, 1, m - 1), SubSeq(b, 1, k))
             \o << a[m] >>
             \o merge(SubSeq(a, m + 1, Len(a)), SubSeq(b, k + 1, Len(b)))

\* Vec::sort on chars: a stable merge sort, ascending by code point.
RECURSIVE sort(_)
sort(v) ==
    IF Len(v) <= 1 THEN v
    ELSE LET mid == Len(v) \div 2
         IN  merge(sort(SubSeq(v, 1, mid)), sort(SubSeq(v, mid + 1, Len(v))))

\* Vec::dedup: of every run of consecutive equal elements the first is kept.
\* The halves are deduplicated on their own; a run that crosses the middle
\* loses the head of the right half.
RECURSIVE dedup(_)
dedup(v) ==
    IF Len(v) <= 1 THEN v
    ELSE LET mid == Len(v) \div 2
             l == dedup(SubSeq(v, 1, mid))
             r == dedup(SubSeq(v, mid + 1, Len(v)))
         IN  IF l[Len(l)] = r[1] THEN l \o Tail(r) ELSE l \o r

\* construct, up to the sort: the working Vec after the last append.
\* A faulty variant of presort: the groups are appended in the order the
\* statics are declared in, prose punctuation before the math operators.
presort_declared_order(self) ==
    (IF self.alpha_lower THEN CHARSET_ALPHA_LOWER ELSE << >>)
    \o (IF self.alpha_upper THEN CHARSET_ALPHA_UPPER ELSE << >>)
    \o (IF self.numeric THEN CHARSET_NUMERIC ELSE << >>)
    \o (IF self.prose THEN CHARSET_PROSE ELSE << >>)
    \o (IF self.mathops THEN CHARSET_MATHOPS ELSE << >>)
    \o (IF self.delim THEN CHARSET_DELIM ELSE << >>)
    \o (IF self.misc_special THEN CHARSET_MISC_SPECIAL ELSE << >>)
    \o self.additions

presort(self) ==
    (IF self.alpha_lower THEN CHARSET_ALPHA_LOWER ELSE << >>)
    \o (IF self.alpha_upper THEN CHARSET_ALPHA_UPPER ELSE << >>)
    \o (IF self.numeric THEN CHARSET_NUMERIC ELSE << >>)
    \o (IF self.mathops THEN CHARSET_MATHOPS ELSE << >>)
    \o (IF self.prose THEN CHARSET_PROSE ELSE << >>)
    \o (IF self.delim THEN CHARSET_DELIM ELSE << >>)
    \o (IF self.misc_special THEN CHARSET_MISC_SPECIAL ELSE << >>)
    \o self.additions

\* A faulty variant of construct: the sort step is left out.
construct_unsorted(self) == dedup(presort(self))

\* A faulty variant of construct: the dedup step is left out.
construct_nodedup(self) == sort(presort(self))

\* A faulty variant of construct: the additions are never appended.
construct_noadditions(self) ==
    dedup(sort(presort([self EXCEPT !.additions = << >>])))

\* CharsetSpec::construct
construct(self) == dedup(sort(presort(self)))

\* impl FromStr for CharsetSpec: the loop over s.chars() from position i on,
\* `?` returning the resolver's error at the first character it rejects.
RECURSIVE from_str_loop(_, _, _)
from_str_loop(spec0, s, i) ==
    IF i > Len(s) THEN Ok(spec0)
    ELSE LET name == try_from(s[i])
         IN  IF name.ok
             THEN from_str_loop(add_assign_name(spec0, name.val), s, i + 1)
             ELSE Err(name.err)

\* A faulty variant of from_str: a rejected character is skipped instead of reported.
RECURSIVE from_str_skip_loop(_, _, _)
from_str_skip_loop(spec0, s, i) ==
    IF i > Len(s) THEN Ok(spec0)
    ELSE LET name == try_from(s[i])
         IN  IF name.ok
             THEN from_str_skip_loop(add_assign_name(spec0, name.val), s, i + 1)
             ELSE from_str_skip_loop(spec0, s, i + 1)

from_str_skipping(s) == from_str_skip_loop(empty, s, 1)

\* impl FromStr for CharsetSpec::from_str
from_str(s) == from_str_loop(empty, s, 1)

\* ---------------------------------------------------------------- f64 ---
\* Natural numbers too large for the checker's integers: little-endian
\* sequences of limbs below LimbBase, without leading zero limbs.
LimbBits == 20
LimbBase == 1048576

RECURSIVE pow2(_)
pow2(e) == IF e = 0 THEN 1 ELSE 2 * pow2(e - 1)

\* Carries propagated through the limbs p, low to high, from carry-in cin.
RECURSIVE carry_norm(_, _)
carry_norm(p, cin) ==
    IF p = << >> THEN [limbs |-> << >>, carry |-> cin]
    ELSE IF Len(p) = 1
    THEN [limbs |-> << (p[1] + cin) % LimbBase >>,
          carry |-> (p[1] + cin) \div LimbBase]
    ELSE LET mid == Len(p) \div 2
             lo == carry_norm(SubSeq(p, 1, mid), cin)
             hi == carry_norm(SubSeq(p, mid + 1, Len(p)), lo.carry)
         IN  [limbs |-> lo.limbs \o hi.limbs, carry |-> hi.carry]

\* a * k for 0 < k < 2048
big_mul_small(a, k) ==
    LET r == carry_norm([i \in DOMAIN a |-> a[i] * k], 0)
    IN  IF r.carry = 0 THEN r.limbs ELSE Append(r.limbs, r.carry)

\* a * k^n for 0 < k < 2048
RECURSIVE big_mul_pow(_, _, _)
big_mul_pow(a, k, n) ==
    IF n = 0 THEN a
    ELSE IF n = 1 THEN big_mul_small(a, k)
    ELSE LET half == big_mul_pow(a, k, n \div 2)
         IN  IF half = << >> THEN half
             ELSE big_mul_pow(half, k, n - n \div 2)

\* k^n, exactly
big_pow(k, n) ==
    IF k = 0 THEN (IF n = 0 THEN << 1 >> ELSE << >>)
    ELSE big_mul_pow(<< 1 >>, k, n)

\* Number of bits of x < LimbBase
small_bit_len(x) == Cardinality({ i \in 0..(LimbBits - 1) : pow2(i) <= x })

\* Number of bits of a: floor(log2(a)) + 1 for a > 0
big_bit_len(a) ==
    IF a = << >> THEN 0
    ELSE LimbBits * (Len(a) - 1) + small_bit_len(a[Len(a)])

\* Bit i (from 0) of a
big_bit(a, i) ==
    IF i \div LimbBits + 1 > Len(a) THEN 0
    ELSE (a[i \div LimbBits + 1] \div pow2(i % LimbBits)) % 2

\* a with its d lowest bits cleared
big_clear_low(a, d) ==
    [ i \in DOMAIN a |->
        IF i * LimbBits <= d THEN 0
        ELSE IF (i - 1) * LimbBits >= d THEN a[i]
        ELSE (a[i] \div pow2(d - (i - 1) * LimbBits))
                 * pow2(d - (i - 1) * LimbBits) ]

\* a + 2^d, for a with its d lowest bits clear
big_add_pow2(a, d) ==
    LET at == d \div LimbBits + 1
        r == carry_norm(
                 [ i \in DOMAIN a |->
                     IF i = at THEN a[i] + pow2(d % LimbBits) ELSE a[i] ], 0)
    IN  IF r.carry = 0 THEN r.limbs ELSE Append(r.limbs, r.carry)

\* An f64 holding a non-negative integer, or +inf.
F64Finite(a) == [class |-> "finite", int |-> a]
F64Inf == [class |-> "inf", int |-> << >>]

\* The natural number a as the nearest f64 (ties to even); infinite from
\* 2^1024 on.
f64_round(a) ==
    LET len == big_bit_len(a)
        d == len - F64_MANTISSA_DIGITS
        up == /\ big_bit(a, d - 1) = 1
              /\ \/ big_bit(a, d) = 1
                 \/ \E i \in 0..(d - 2) : big_bit(a, i) = 1
        r == IF d <= 0 THEN a
             ELSE IF up THEN big_add_pow2(big_clear_low(a, d), d)
             ELSE big_clear_low(a, d)
    IN  IF big_bit_len(r) > F64_MAX_EXP THEN F64Inf ELSE F64Finite(r)

\* (k as f64).powf(n as f64) for the integers k, n >= 0: k^n, rounded.
\* powf(0, 0) is 1.
powf(k, n) == f64_round(big_pow(k, n))

\* Bit i (from 0) of the 53-bit significand of the f64 holding a > 0.
sig_bit(a, i) ==
    LET at == i + big_bit_len(a) - F64_MANTISSA_DIGITS
    IN  IF at < 0 THEN 0 ELSE big_bit(a, at)

\* The value of the bits i .. i + n - 1 of that significand.
RECURSIVE sig_bits(_, _, _)
sig_bits(a, i, n) ==
    IF n = 0 THEN 0 ELSE sig_bit(a, i) + 2 * sig_bits(a, i + 1, n - 1)

\* Whether log2 of the f64 holding a > 0, whose real logarithm lies in
\* [len - 1, len) for len the bit length of a, rounds to len.  With
\* t = 2^53 - significand, len - log2(a) is about t * 2^-53 / ln 2, and half
\* an ulp of a result in [2^j, 2^(j+1)) is 2^(j-53); j <= 9 for a finite f64,
\* so only t < 1024 can round up.
log2_rounds_up(a) ==
    LET len == big_bit_len(a)
        j == small_bit_len(len - 1) - 1
        t == 1024 - sig_bits(a, 0, 10)
    IN  /\ len >= 2
        /\ \A i \in 10..(F64_MANTISSA_DIGITS - 1) : sig_bit(a, i) = 1
        /\ t * 14427 < pow2(j) * 10000

\* A usize; usize::MAX does not fit the checker's integers.
Usize(n) == [max |-> FALSE, n |-> n]
USIZE_MAX == [max |-> TRUE, n |-> 0]

\* x.log2().floor() as usize: the cast saturates, +inf to usize::MAX and
\* -inf (the logarithm of 0.0) to 0.
log2_floor_as_usize(x) ==
    IF x.class = "inf" THEN USIZE_MAX
    ELSE IF x.int = << >> THEN Usize(0)
    ELSE IF log2_rounds_up(x.int) THEN Usize(big_bit_len(x.int))
    ELSE Usize(big_bit_len(x.int) - 1)

\* --------------------------------------------------- PasswordGenerator ---
\* PasswordGenerator::new; the rng is the source of the picks below.
new(charset, length) == [charset |-> charset, length |-> length]

\* PasswordGenerator::length
with_length(self, length) == [self EXCEPT !.length = length]

\* What a call does: it returns val, or it panics (Option::unwrap on None).
Returned(v) == [kind |-> "return", val |-> v]
Panic == [kind |-> "panic", val |-> << >>]
NoReturn == [kind |-> "none", val |-> << >>]

\* A faulty variant of generate: the loop runs once more than length.
generate_one_more(self) ==
    IF self.charset = << >> THEN { Panic }
    ELSE { Returned([i \in 1..(self.length + 1) |-> self.charset[p[i]]]) :
             p \in [1..(self.length + 1) -> DOMAIN self.charset] }

\* PasswordGenerator::generate: every outcome of the length picks.  choose
\* returns None on an empty charset and unwrap panics, in the first round of
\* the loop; with length 0 the loop body never runs.
generate(self) ==
    IF self.length > 0 /\ self.charset = << >> THEN { Panic }
    ELSE { Returned([i \in 1..self.length |-> self.charset[p[i]]]) :
             p \in [1..self.length -> DOMAIN self.charset] }

\* PasswordGenerator::generate_n: n calls of generate, collected; a panic of
\* the first call unwinds through it.
generate_n(self, n) ==
    IF n = 0 THEN { Returned(<< >>) }
    ELSE IF Panic \in generate(self) THEN { Panic }
    ELSE { Returned([i \in 1..n |-> f[i].val]) : f \in [1..n -> generate(self)] }

\* PasswordGenerator::combinations
combinations(self) == powf(Len(self.charset), self.length)

\* PasswordGenerator::entropy
entropy(self) == log2_floor_as_usize(combinations(self))

\* ------------------------------------------------------------- inputs ---
\* All sequences over S of length at most n.
RECURSIVE SeqsUpTo(_, _)
SeqsUpTo(S, n) ==
    IF n = 0 THEN { << >> }
    ELSE LET shorter == SeqsUpTo(S, n - 1)
         IN  shorter \cup { Append(q, x) : q \in { r \in shorter : Len(r) = n - 1 }, x \in S }

\* The nine abbreviations, and 'Z' (90) and 'u' (117), which are none.
EncodingChars == { 85, 76, 78, 77, 80, 68, 88, 65, 83, 90, 117 }

\* Encoded specification strings handed to from_str by the binary.
EncodedStrings == SeqsUpTo(EncodingChars, MaxParseLen)

\* The string the unit test parses first: "LU".
TestStrings == { << 76, 85 >> }

\* Characters added one by one: 'a' (in a group) and U+00E9 (in none).
AddedChars == { 97, 233 }

\* Strings added: "-a-" repeats a character and overlaps two groups.
AddedStrings == { << 45, 97, 45 >> }

\* Alphabets given to PasswordGenerator: hand-made ones over 'a' and 'b',
\* not deduplicated, and the two presets' constructed alphabets.
GenCharsets ==
    SeqsUpTo({ 97, 98 }, MaxAlphabet)
    \cup { construct(std64), construct(printable_ascii) }

\* Password lengths.
Lengths == (0..MaxLength) \cup { FROM_LENGTH, DEFAULT_LENGTH, LongLength }

\* ---------------------------------------------------------------- state ---
VARIABLES
    phase,      \* "new", "resolved", "spec", "failed", "constructed",
                \* "generator", "panicked"
    origin,     \* the constructor that made spec
    input,      \* the string from_str was called with
    spec,       \* Option<CharsetSpec>: the specification the caller holds
    err,        \* Option<io::Error>: the error from_str returned
    hist,       \* the mutating operations applied to spec since construction,
                \* each with the specification before it
    set,        \* Option<Vec<char>>: construct's working sequence `set` as
                \* it is when set.sort() is called
    alphabet,   \* Option<Vec<char>>: what construct returned
    resolved,   \* Option<(char, io::Result<CharsetName>)>: a try_from call
    pwg,        \* Option<PasswordGenerator>: [charset, length]
    call,       \* the last PasswordGenerator method called, with its argument
    ret         \* how that call ended: Returned(value) or Panic

vars ==
    << phase, origin, input, spec, err, hist, set, alphabet, resolved, pwg, call,
       ret >>

charsetVars == << origin, input, spec, err, hist, set, alphabet, resolved >>
genVars == << pwg, call, ret >>

\* call: the method, its argument and the generator it was called on.
NoCall == [method |-> "none", arg |-> 0, self |-> None]
Call(method, arg) == [method |-> method, arg |-> arg, self |-> pwg]

Init ==
    /\ phase = "new"
    /\ origin = "none"
    /\ input = << >>
    /\ spec = None
    /\ err = None
    /\ hist = << >>
    /\ set = None
    /\ alphabet = None
    /\ resolved = None
    /\ pwg = None
    /\ call = NoCall
    /\ ret = NoReturn

\* One entry of hist: the operation, and the specification it was applied to.
Op(kind, name, chars) ==
    [op |-> kind, name |-> name, chars |-> chars, before |-> spec[1]]

\* ------------------------------------------------------------ actions ---
\* CharsetName::try_from(c), called on its own.
TryFromChar(c) ==
    /\ phase = "new"
    /\ phase' = "resolved"
    /\ resolved' = Some([char |-> c, result |-> try_from(c)])
    /\ UNCHANGED << origin, input, spec, err, hist, set, alphabet >>
    /\ UNCHANGED genVars

\* CharsetSpec::empty()
Empty ==
    /\ phase = "new"
    /\ phase' = "spec"
    /\ origin' = "empty"
    /\ spec' = Some(empty)
    /\ UNCHANGED << input, err, hist, set, alphabet, resolved >>
    /\ UNCHANGED genVars

\* CharsetSpec::std64()
Std64 ==
    /\ phase = "new"
    /\ phase' = "spec"
    /\ origin' = "std64"
    /\ spec' = Some(std64)
    /\ UNCHANGED << input, err, hist, set, alphabet, resolved >>
    /\ UNCHANGED genVars

\* CharsetSpec::printable_ascii()
PrintableAscii ==
    /\ phase = "new"
    /\ phase' = "spec"
    /\ origin' = "printable_ascii"
    /\ spec' = Some(printable_ascii)
    /\ UNCHANGED << input, err, hist, set, alphabet, resolved >>
    /\ UNCHANGED genVars

\* s.parse::<CharsetSpec>(): Ok hands the caller the specification, Err only
\* the error.
FromStr(s) ==
    /\ phase = "new"
    /\ input' = s
    /\ origin' = "from_str"
    /\ LET r == from_str(s)
       IN  IF r.ok
           THEN /\ phase' = "spec"
                /\ spec' = Some(r.val)
                /\ err' = err
           ELSE /\ phase' = "failed"
                /\ spec' = spec
                /\ err' = Some(r.err)
    /\ UNCHANGED << hist, set, alphabet, resolved >>
    /\ UNCHANGED genVars

\* spec += name
AddName(name) ==
    /\ phase = "spec"
    /\ Len(hist) < MaxOps
    /\ spec' = Some(add_assign_name(spec[1], name))
    /\ hist' = Append(hist, Op("add_name", name, << >>))
    /\ UNCHANGED << phase, origin, input, err, set, alphabet, resolved >>
    /\ UNCHANGED genVars

\* spec -= name
SubName(name) ==
    /\ phase = "spec"
    /\ Len(hist) < MaxOps
    /\ spec' = Some(sub_assign_name(spec[1], name))
    /\ hist' = Append(hist, Op("sub_name", name, << >>))
    /\ UNCHANGED << phase, origin, input, err, set, alphabet, resolved >>
    /\ UNCHANGED genVars

\* spec += c
AddChar(c) ==
    /\ phase = "spec"
    /\ Len(hist) < MaxOps
    /\ spec' = Some(add_assign_char(spec[1], c))
    /\ hist' = Append(hist, Op("add_char", "", << c >>))
    /\ UNCHANGED << phase, origin, input, err, set, alphabet, resolved >>
    /\ UNCHANGED genVars

\* spec += more
AddStr(more) ==
    /\ phase = "spec"
    /\ Len(hist) < MaxOps
    /\ spec' = Some(add_assign_str(spec[1], more))
    /\ hist' = Append(hist, Op("add_str", "", more))
    /\ UNCHANGED << phase, origin, input, err, set, alphabet, resolved >>
    /\ UNCHANGED genVars

\* spec.construct(): consumes the specification; spec keeps the value that
\* was moved in, and phase says it can no longer be used. set records the
\* working sequence after the last append, before set.sort().
Construct ==
    /\ phase = "spec"
    /\ phase' = "constructed"
    /\ set' = Some(presort(spec[1]))
    /\ alphabet' = Some(construct(spec[1]))
    /\ UNCHANGED << origin, input, spec, err, hist, resolved >>
    /\ UNCHANGED genVars

\* PasswordGenerator::new(charset, length)
New(charset, length) ==
    /\ phase = "new"
    /\ phase' = "generator"
    /\ pwg' = Some(new(charset, length))
    /\ call' = Call("new", length)
    /\ ret' = NoReturn
    /\ UNCHANGED charsetVars

\* PasswordGenerator::from(charset), for Vec<char> and for &str
From(charset) ==
    /\ phase = "new"
    /\ phase' = "generator"
    /\ pwg' = Some(new(charset, FROM_LENGTH))
    /\ call' = Call("from", 0)
    /\ ret' = NoReturn
    /\ UNCHANGED charsetVars

\* pwg = pwg.length(length)
Length(length) ==
    /\ phase = "generator"
    /\ pwg' = Some(with_length(pwg[1], length))
    /\ call' = Call("length", length)
    /\ ret' = NoReturn
    /\ UNCHANGED phase
    /\ UNCHANGED charsetVars

\* A call that returns or panics; a panic ends the run.
Finish(outcome) ==
    /\ phase' = IF outcome.kind = "panic" THEN "panicked" ELSE phase
    /\ ret' = outcome

\* pwg.generate(); the picks are enumerated for short passwords over short
\* alphabets only.
Generate ==
    /\ phase = "generator"
    /\ Len(pwg[1].charset) <= MaxAlphabet
    /\ pwg[1].length <= MaxLength
    /\ \E outcome \in generate(pwg[1]) : Finish(outcome)
    /\ call' = Call("generate", 0)
    /\ UNCHANGED pwg
    /\ UNCHANGED charsetVars

\* pwg.generate_n(n)
GenerateN(n) ==
    /\ phase = "generator"
    /\ Len(pwg[1].charset) <= MaxAlphabet
    /\ pwg[1].length <= MaxLength
    /\ \E outcome \in generate_n(pwg[1], n) : Finish(outcome)
    /\ call' = Call("generate_n", n)
    /\ UNCHANGED pwg
    /\ UNCHANGED charsetVars

\* pwg.combinations()
Combinations ==
    /\ phase = "generator"
    /\ ret' = Returned(combinations(pwg[1]))
    /\ call' = Call("combinations", 0)
    /\ UNCHANGED << phase, pwg >>
    /\ UNCHANGED charsetVars

\* pwg.entropy()
Entropy ==
    /\ phase = "generator"
    /\ ret' = Returned(entropy(pwg[1]))
    /\ call' = Call("entropy", 0)
    /\ UNCHANGED << phase, pwg >>
    /\ UNCHANGED charsetVars

\* The library's CharsetSpec: any constructor, any operations, construct.
Next ==
    \/ Empty
    \/ Std64
    \/ PrintableAscii
    \/ \E s \in TestStrings : FromStr(s)
    \/ \E name \in CharsetName : AddName(name)
    \/ \E name \in CharsetName : SubName(name)
    \/ \E c \in AddedChars : AddChar(c)
    \/ \E more \in AddedStrings : AddStr(more)
    \/ Construct

Spec == Init /\ [][Next]_vars

\* The binary's Args::get: the charsets argument parsed (or std64 without
\* one), the --add string appended, the result constructed; and the resolver
\* called on single characters.
NextParse ==
    \/ \E c \in 0..MaxCodePoint : TryFromChar(c)
    \/ Std64
    \/ \E s \in EncodedStrings : FromStr(s)
    \/ \E more \in AddedStrings : AddStr(more)
    \/ Construct

SpecParse == Init /\ [][NextParse]_vars

\* The library's PasswordGenerator.
NextGen ==
    \/ \E charset \in GenCharsets, length \in Lengths : New(charset, length)
    \/ \E charset \in GenCharsets : From(charset)
    \/ \E length \in Lengths : Length(length)
    \/ Generate
    \/ \E n \in 0..MaxCount : GenerateN(n)
    \/ Combinations
    \/ Entropy

SpecGen == Init /\ [][NextGen]_vars

\* ----------------------------------------------------------- properties ---
\* The flag of each atomic group, and the characters the group contributes.
FlagChars ==
    [ alpha_lower |-> 97..122,
      alpha_upper |-> 65..90,
      numeric |-> 48..57,
      mathops |-> { 42, 43, 45, 47, 60, 61, 62 },
      prose |-> { 32, 33, 34, 39, 44, 46, 58, 59, 63 },
      delim |-> { 40, 41, 91, 93, 123, 125 },
      misc_special |-> { 35, 36, 37, 38, 64, 92, 94, 95, 96, 124, 126 } ]

Flags == DOMAIN FlagChars

\* The flags a name stands for.
Expansion ==
    [ AlphaLower |-> { "alpha_lower" },
      AlphaUpper |-> { "alpha_upper" },
      Numeric |-> { "numeric" },
      Mathops |-> { "mathops" },
      Prose |-> { "prose" },
      Delim |-> { "delim" },
      MiscSpecial |-> { "misc_special" },
      Alpha |-> { "alpha_lower", "alpha_upper" },
      Special |-> { "mathops", "prose", "delim", "misc_special" } ]

StrictlyAscending(v) == \A i \in 1..(Len(v) - 1) : v[i] < v[i + 1]

\* The characters a specification asks for.
WantedChars(s) ==
    UNION { FlagChars[f] : f \in { g \in Flags : s[g] } } \cup Range(s.additions)

\* "LU"
EncodedLU == << 76, 85 >>

\* 'A'..'Z' followed by 'a'..'z'
SortedLetters == [i \in 1..52 |-> IF i <= 26 THEN 64 + i ELSE 70 + i]

\* C1: whatever constructor made the specification and whatever add-by-name,
\* remove-by-name, add-char and add-string operations followed, construct
\* returns a strictly ascending sequence whose characters are exactly those
\* of the groups whose flag is set and of the additions; parse("LU") gives
\* the 52 letters in code-point order.
C1_ConstructSortedUnion ==
    phase = "constructed" =>
        /\ StrictlyAscending(alphabet[1])
        /\ Range(alphabet[1]) = WantedChars(spec[1])
        /\ (origin = "from_str" /\ input = EncodedLU /\ hist = << >>) =>
               alphabet[1] = SortedLetters

\* C1 witness: an alphabet was constructed from a specification in which an
\* added character repeats a character of an active group.
C1_Witness ==
    /\ phase = "constructed"
    /\ hist # << >>
    /\ spec[1].alpha_lower
    /\ 97 \in Range(spec[1].additions)
    /\ Len(alphabet[1]) < Len(presort(spec[1]))
    /\ Cardinality(Range(alphabet[1])) = Len(alphabet[1])

\* C9: std64 constructs to exactly 64 distinct characters (letters, digits,
\* '-', '_'), printable_ascii to exactly the 95 code points 32..126, empty to
\* none; the seven groups are pairwise disjoint.
C9_PresetSizes ==
    /\ (phase = "constructed" /\ hist = << >>) =>
           /\ origin = "std64" =>
                  /\ Len(alphabet[1]) = 64
                  /\ Cardinality(Range(alphabet[1])) = 64
                  /\ Range(alphabet[1]) =
                         (65..90) \cup (97..122) \cup (48..57) \cup { 45, 95 }
           /\ origin = "printable_ascii" =>
                  /\ Len(alphabet[1]) = 95
                  /\ Cardinality(Range(alphabet[1])) = 95
                  /\ Range(alphabet[1]) = 32..126
           /\ origin = "empty" => Len(alphabet[1]) = 0
    /\ LET groups == << CHARSET_ALPHA_LOWER, CHARSET_ALPHA_UPPER, CHARSET_NUMERIC,
                        CHARSET_PROSE, CHARSET_MATHOPS, CHARSET_DELIM,
                        CHARSET_MISC_SPECIAL >>
       IN  \A i, j \in DOMAIN groups :
               i # j => Range(groups[i]) \cap Range(groups[j]) = { }

\* C9 witness: the printable preset was constructed, untouched, to 95
\* characters.
C9_Witness ==
    /\ phase = "constructed"
    /\ origin = "printable_ascii"
    /\ hist = << >>
    /\ Len(alphabet[1]) = 95

\* The last two operations were: add the name c, then remove the name c.
AddedThenRemoved(c) ==
    /\ Len(hist) >= 2
    /\ hist[Len(hist) - 1].op = "add_name"
    /\ hist[Len(hist) - 1].name = c
    /\ hist[Len(hist)].op = "sub_name"
    /\ hist[Len(hist)].name = c

\* The specification before the last two operations.
BeforeLastTwo == hist[Len(hist) - 1].before

\* C3, as claimed: adding a compound name and then removing it leaves each
\* of its constituent flags with the value it had before the add, also when
\* the flag was already set before the add.
C3_AddThenRemoveRestores ==
    \A c \in CompoundNames :
        AddedThenRemoved(c) =>
            \A f \in Expansion[c] : spec[1][f] = BeforeLastTwo[f]

\* C3, amended: adding a compound name and then removing it leaves each of
\* its constituent flags false, which is the value it had before the add
\* exactly when it was not set before the add; every other flag and the
\* additions list are as before the add.
C3_AddThenRemoveClears ==
    \A c \in CompoundNames :
        AddedThenRemoved(c) =>
            /\ \A f \in Expansion[c] :
                   /\ spec[1][f] = FALSE
                   /\ (spec[1][f] = BeforeLastTwo[f]) <=> ~BeforeLastTwo[f]
            /\ \A f \in Flags \ Expansion[c] : spec[1][f] = BeforeLastTwo[f]
            /\ spec[1].additions = BeforeLastTwo.additions

\* C3 witness: all-letters was added and removed on a specification parsed
\* from "LU", in which add-by-name had set both letter flags beforehand; both
\* are now false.
C3_Witness ==
    /\ AddedThenRemoved("Alpha")
    /\ origin = "from_str"
    /\ input = EncodedLU
    /\ BeforeLastTwo.alpha_lower
    /\ BeforeLastTwo.alpha_upper
    /\ ~spec[1].alpha_lower
    /\ ~spec[1].alpha_upper

\* C4: add-by-name sets, and remove-by-name clears, exactly the flags of the
\* name's expansion, whatever they were, and leaves every other flag and the
\* additions alone; a compound acts like its atomic names one after another;
\* a second removal of the same name changes nothing; std64 minus
\* all-letters minus digits constructs to '-' and '_'.
C4_NameOpsFrame ==
    /\ hist # << >> =>
           LET last == hist[Len(hist)]
               pre == last.before
           IN  /\ last.op = "add_name" =>
                      /\ \A f \in Flags :
                             spec[1][f] = (f \in Expansion[last.name] \/ pre[f])
                      /\ spec[1].additions = pre.additions
               /\ last.op = "sub_name" =>
                      /\ \A f \in Flags :
                             spec[1][f] = (f \notin Expansion[last.name] /\ pre[f])
                      /\ spec[1].additions = pre.additions
               /\ (last.op = "add_name" /\ last.name = "Alpha") =>
                      spec[1] = add_assign_name(
                                    add_assign_name(pre, "AlphaLower"), "AlphaUpper")
               /\ (last.op = "add_name" /\ last.name = "Special") =>
                      spec[1] = add_assign_name(add_assign_name(add_assign_name(
                                    add_assign_name(pre, "Mathops"), "Prose"),
                                    "Delim"), "MiscSpecial")
               /\ (last.op = "sub_name" /\ last.name = "Alpha") =>
                      spec[1] = sub_assign_name(
                                    sub_assign_name(pre, "AlphaLower"), "AlphaUpper")
               /\ (last.op = "sub_name" /\ last.name = "Special") =>
                      spec[1] = sub_assign_name(sub_assign_name(sub_assign_name(
                                    sub_assign_name(pre, "Mathops"), "Prose"),
                                    "Delim"), "MiscSpecial")
    /\ ( /\ Len(hist) >= 2
         /\ hist[Len(hist)].op = "sub_name"
         /\ hist[Len(hist) - 1].op = "sub_name"
         /\ hist[Len(hist)].name = hist[Len(hist) - 1].name ) =>
           spec[1] = hist[Len(hist)].before
    /\ ( /\ phase = "constructed"
         /\ origin = "std64"
         /\ Len(hist) = 2
         /\ hist[1].op = "sub_name" /\ hist[1].name = "Alpha"
         /\ hist[2].op = "sub_name" /\ hist[2].name = "Numeric" ) =>
           alphabet[1] = << 45, 95 >>

\* C4 witness: std64 minus all-letters minus digits was constructed.
C4_Witness ==
    /\ phase = "constructed"
    /\ origin = "std64"
    /\ Len(hist) = 2
    /\ hist[1].op = "sub_name" /\ hist[1].name = "Alpha"
    /\ hist[2].op = "sub_name" /\ hist[2].name = "Numeric"
    /\ alphabet[1] = << 45, 95 >>

\* The operation o applied to the specification s.
Apply(s, o) ==
    CASE o.op = "add_name" -> add_assign_name(s, o.name)
      [] o.op = "sub_name" -> sub_assign_name(s, o.name)
      [] o.op = "add_char" -> add_assign_char(s, o.chars[1])
      [] o.op = "add_str" -> add_assign_str(s, o.chars)

\* The operations ops[order[1]], ops[order[2]], ... applied to s, from
\* position i on.
RECURSIVE ApplyInOrder(_, _, _, _)
ApplyInOrder(s, ops, order, i) ==
    IF i > Len(order) THEN s
    ELSE ApplyInOrder(Apply(s, ops[order[i]]), ops, order, i + 1)

Orders(n) == { f \in [1..n -> 1..n] : \A i, j \in 1..n : f[i] = f[j] => i = j }

\* C8: when only additions (by name, by character, by string) were applied,
\* applying them in any other order to the same starting specification
\* constructs the same alphabet.
C8_OrderIndependent ==
    ( /\ phase = "constructed"
      /\ hist # << >>
      /\ \A i \in DOMAIN hist : hist[i].op # "sub_name" ) =>
        \A order \in Orders(Len(hist)) :
            construct(ApplyInOrder(hist[1].before, hist, order, 1)) = alphabet[1]

\* C8 witness: upper then lower letters were added to the empty
\* specification and the 52 letters constructed; lower then upper is the
\* other order.
C8_Witness ==
    /\ phase = "constructed"
    /\ origin = "empty"
    /\ Len(hist) = 2
    /\ hist[1].op = "add_name" /\ hist[1].name = "AlphaUpper"
    /\ hist[2].op = "add_name" /\ hist[2].name = "AlphaLower"
    /\ alphabet[1] = SortedLetters

\* The nine abbreviations and the names they stand for.
Abbreviation ==
    85 :> "AlphaUpper" @@ 76 :> "AlphaLower" @@ 78 :> "Numeric"
    @@ 77 :> "Mathops" @@ 80 :> "Prose" @@ 68 :> "Delim"
    @@ 88 :> "MiscSpecial" @@ 65 :> "Alpha" @@ 83 :> "Special"

\* The empty specification with the names of the abbreviations s added by
\* name, left to right.
RECURSIVE AddedByName(_)
AddedByName(s) ==
    IF s = << >> THEN empty
    ELSE add_assign_name(AddedByName(SubSeq(s, 1, Len(s) - 1)),
                         Abbreviation[s[Len(s)]])

\* The positions of input holding a character that is no abbreviation.
Unresolved == { i \in DOMAIN input : input[i] \notin DOMAIN Abbreviation }

FirstUnresolved == CHOOSE i \in Unresolved : \A j \in Unresolved : i <= j

\* C5: from_str fails exactly when the string holds a character that is no
\* abbreviation, wherever it stands; the error is the invalid-input error
\* with the first such character, the caller gets no specification and
\* nothing else has changed.  Otherwise from_str succeeds with the empty
\* specification to which every name was added left to right.
C5_ParseFailsAtFirstUnresolved ==
    origin = "from_str" =>
        IF Unresolved # { }
        THEN /\ phase = "failed"
             /\ err = Some(InvalidInput(input[FirstUnresolved]))
             /\ spec = None
             /\ hist = << >>
             /\ alphabet = None
             /\ resolved = None
             /\ pwg = None
        ELSE /\ phase \in { "spec", "constructed" }
             /\ err = None
             /\ spec # None
             /\ hist = << >> => spec[1] = AddedByName(input)

\* C5 witness: a parse failed at its second character, after a valid first
\* one, with that second character in the error.
C5_Witness ==
    /\ phase = "failed"
    /\ Len(input) >= 2
    /\ input[1] \in DOMAIN Abbreviation
    /\ input[2] = 90
    /\ err = Some(InvalidInput(90))
    /\ spec = None

\* C10: try_from maps U, L, N, M, P, D, X, A, S to upper letters, lower
\* letters, digits, math operators, prose punctuation, delimiters, misc
\* symbols, all-letters, all-special, and returns the invalid-input error
\* with the character, and no name, for every other character.
C10_ResolverTable ==
    resolved # None =>
        LET c == resolved[1].char
            r == resolved[1].result
        IN  IF c \in { 85, 76, 78, 77, 80, 68, 88, 65, 83 }
            THEN /\ r.ok
                 /\ r.val = Abbreviation[c]
                 /\ c = 85 => r.val = "AlphaUpper"
                 /\ c = 76 => r.val = "AlphaLower"
            ELSE /\ ~r.ok
                 /\ DOMAIN r = { "ok", "err" }
                 /\ r.err = InvalidInput(c)

\* C10 witness: try_from was called with 'u' and returned the error naming
\* 'u'.
C10_Witness ==
    /\ resolved # None
    /\ resolved[1].char = 117
    /\ ~resolved[1].result.ok
    /\ resolved[1].result.err.char = 117

\* The generator the last call was made on.
Callee == call.self[1]

\* s is a password of n characters of the alphabet cs.
IsPassword(s, cs, n) == Len(s) = n /\ Range(s) \subseteq Range(cs)

\* generate was called: by the caller, or by generate_n with a count above 0.
GenerateCalled ==
    \/ call.method = "generate"
    \/ call.method = "generate_n" /\ call.arg > 0

\* C2, as claimed: a call of generate on a generator with an empty alphabet,
\* directly or through generate_n, ends in a reported EmptyAlphabet error:
\* it neither panics nor returns a password.
C2_EmptyAlphabetReported ==
    (GenerateCalled /\ Callee.charset = << >>) =>
        /\ ret.kind = "error"
        /\ ret.val = "EmptyAlphabet"

\* C6: on a generator with a non-empty alphabet and any length, generate
\* returns a string of exactly length characters of the alphabet whatever
\* the picks, generate_n(m) returns exactly m such strings, and the
\* generator's alphabet and length are as before the call.
C6_GenerateContract ==
    ( /\ call.method \in { "generate", "generate_n" }
      /\ Callee.charset # << >> ) =>
        /\ phase = "generator"
        /\ ret.kind = "return"
        /\ pwg = call.self
        /\ call.method = "generate" =>
               IsPassword(ret.val, Callee.charset, Callee.length)
        /\ call.method = "generate_n" =>
               /\ Len(ret.val) = call.arg
               /\ \A i \in DOMAIN ret.val :
                      IsPassword(ret.val[i], Callee.charset, Callee.length)

\* C6 witness: generate_n(2) returned two different passwords of two
\* characters over an alphabet of two.
C6_Witness ==
    /\ call.method = "generate_n"
    /\ call.arg = 2
    /\ Callee.charset = << 97, 98 >>
    /\ Callee.length = 2
    /\ ret.kind = "return"
    /\ Len(ret.val) = 2
    /\ ret.val[1] # ret.val[2]
    /\ ret.val[1][1] # ret.val[1][2]

\* C7, as claimed: for an alphabet of k >= 1 characters and a length n,
\* combinations returns k^n (as the f64 nearest to it, a finite number) and
\* entropy returns floor(log2(k^n)), which is 0 when k = 1 or n = 0.
C7_EntropyIsFloorLog2 ==
    ( /\ call.method \in { "combinations", "entropy" }
      /\ Callee.charset # << >> ) =>
        LET k == Len(Callee.charset)
            n == Callee.length
        IN  /\ ret.kind = "return"
            /\ call.method = "combinations" =>
                   /\ ret.val.class = "finite"
                   /\ ret.val = f64_round(big_pow(k, n))
            /\ call.method = "entropy" =>
                   /\ ret.val = Usize(big_bit_len(big_pow(k, n)) - 1)
                   /\ (k = 1 \/ n = 0) => ret.val = Usize(0)

\* ------------------------------------------- construct's working sequence ---
\* The group a flag switches on, as its static lists it.
GroupOf ==
    [ alpha_lower |-> CHARSET_ALPHA_LOWER,
      alpha_upper |-> CHARSET_ALPHA_UPPER,
      numeric |-> CHARSET_NUMERIC,
      mathops |-> CHARSET_MATHOPS,
      prose |-> CHARSET_PROSE,
      delim |-> CHARSET_DELIM,
      misc_special |-> CHARSET_MISC_SPECIAL ]

\* The groups of the flags set in s, one after the other in the order the
\* sequence of flags gives, from its i-th flag on.
RECURSIVE ActiveGroups(_, _, _)
ActiveGroups(s, flags, i) ==
    IF i > Len(flags) THEN << >>
    ELSE (IF s[flags[i]] THEN GroupOf[flags[i]] ELSE << >>)
         \o ActiveGroups(s, flags, i + 1)

\* Upper case first.
UpperFirst ==
    << "alpha_upper", "alpha_lower", "numeric", "mathops", "prose", "delim",
       "misc_special" >>

\* Lower case first.
LowerFirst ==
    << "alpha_lower", "alpha_upper", "numeric", "mathops", "prose", "delim",
       "misc_special" >>

\* The positions of v holding a character of the set cs.
PositionsOf(v, cs) == { i \in 1..Len(v) : v[i] \in cs }

\* C11, as claimed: when construct reaches its sort step, the working
\* sequence is the active groups in the order upper letters, lower letters,
\* digits, math operators, prose punctuation, delimiters, misc symbols,
\* followed by the additions in the caller's order with their duplicates.
C11_UpperLettersFirst ==
    phase = "constructed" =>
        set[1] = ActiveGroups(spec[1], UpperFirst, 1) \o spec[1].additions

\* C11, amended: when construct reaches its sort step, the working sequence
\* is the active groups in the order lower letters, upper letters, digits,
\* math operators, prose punctuation, delimiters, misc symbols, followed by
\* the additions in the caller's order with their duplicates; when both
\* letter groups are active and no letter was added, every lower-case letter
\* stands before every upper-case letter.
C11_LowerLettersFirst ==
    phase = "constructed" =>
        /\ set[1] = ActiveGroups(spec[1], LowerFirst, 1) \o spec[1].additions
        /\ ( /\ spec[1].alpha_lower
             /\ spec[1].alpha_upper
             /\ Range(spec[1].additions) \cap (FlagChars.alpha_lower \cup FlagChars.alpha_upper) = { } )
           => \A i \in PositionsOf(set[1], FlagChars.alpha_lower) :
                  \A j \in PositionsOf(set[1], FlagChars.alpha_upper) : i < j

\* C11 witness: construct ran on a specification with both letter groups and
\* the special groups active and an addition made twice; the working sequence
\* starts with 'a', holds 'A' at position 27 and ends with the repeated
\* addition.
C11_Witness ==
    /\ phase = "constructed"
    /\ spec[1].alpha_lower /\ spec[1].alpha_upper
    /\ spec[1].mathops /\ spec[1].prose
    /\ \E i, j \in 1..Len(spec[1].additions) :
           i < j /\ spec[1].additions[i] = spec[1].additions[j]
    /\ set[1][1] = 97
    /\ set[1][27] = 65
    /\ set[1][Len(set[1])] = spec[1].additions[Len(spec[1].additions)]
    /\ Len(set[1]) > Len(alphabet[1])

====
